---------------------------- MODULE Spec2Model ----------------------------
(***************************************************************************)
(* Model of the validation stage of the pipeline                           *)
(* (src/src/validation/validator.py): the type coercers, validate_row and  *)
(* the batch loop of main.                                                 *)
(*                                                                         *)
(* Text is a sequence of one-character strings.  A Python value is a       *)
(* record [tag, s, n, b]: tag "null" (None / NaN), "str" (text s), "int"   *)
(* (integer n) or "bool" (boolean b).  A row is a function from field      *)
(* names to values; a rule is a record of optional entries, each a         *)
(* sequence of length 0 (key absent from the YAML mapping) or 1.           *)
(***************************************************************************)
EXTENDS Integers, Sequences, FiniteSets, TLC

VARIABLES csv, df, rules, i, row, new_row, k, ret, valid_rows, discarded, summary, pc

vars == <<csv, df, rules, i, row, new_row, k, ret, valid_rows, discarded, summary, pc>>

-----------------------------------------------------------------------------
(* Python values *)

Null == [tag |-> "null", s |-> <<>>, n |-> 0, b |-> FALSE]

StrV(t) == [tag |-> "str", s |-> t, n |-> 0, b |-> FALSE]

IntV(x) == [tag |-> "int", s |-> <<>>, n |-> x, b |-> FALSE]

BoolV(x) == [tag |-> "bool", s |-> <<>>, n |-> 0, b |-> x]

(* pd.isna(value): true of None and of NaN *)
IsNa(v) == v.tag = "null"

(* value == "" *)
IsEmptyStr(v) == v.tag = "str" /\ Len(v.s) = 0

-----------------------------------------------------------------------------
(* Text helpers: what str(), str.strip(), str.lower() and int() do *)

Digits == <<"0", "1", "2", "3", "4", "5", "6", "7", "8", "9">>

DigitSet == {Digits[j] : j \in 1..10}

DigitVal(c) == (CHOOSE j \in 1..10 : Digits[j] = c) - 1

Upper == <<"A", "B", "C", "D", "E", "F", "G", "H", "I", "J", "K", "L", "M",
           "N", "O", "P", "Q", "R", "S", "T", "U", "V", "W", "X", "Y", "Z">>

Lower == <<"a", "b", "c", "d", "e", "f", "g", "h", "i", "j", "k", "l", "m",
           "n", "o", "p", "q", "r", "s", "t", "u", "v", "w", "x", "y", "z">>

Whitespace == {" ", "\t", "\n", "\r"}

LowerChar(c) ==
    IF \E j \in 1..26 : Upper[j] = c
    THEN Lower[CHOOSE j \in 1..26 : Upper[j] = c]
    ELSE c

(* str.lower() *)
LowerText(t) == [j \in 1..Len(t) |-> LowerChar(t[j])]

RECURSIVE LStrip(_)
LStrip(t) ==
    IF Len(t) > 0 /\ t[1] \in Whitespace THEN LStrip(Tail(t)) ELSE t

RECURSIVE RStrip(_)
RStrip(t) ==
    IF Len(t) > 0 /\ t[Len(t)] \in Whitespace
    THEN RStrip(SubSeq(t, 1, Len(t) - 1))
    ELSE t

(* str.strip() *)
Strip(t) == RStrip(LStrip(t))

RECURSIVE NatToText(_)
NatToText(x) ==
    IF x < 10 THEN <<Digits[x + 1]>>
    ELSE NatToText(x \div 10) \o <<Digits[(x % 10) + 1]>>

(* str(int) *)
IntToText(x) == IF x < 0 THEN <<"-">> \o NatToText(0 - x) ELSE NatToText(x)

(* str(value) *)
Str(v) ==
    CASE v.tag = "str" -> v.s
      [] v.tag = "int" -> IntToText(v.n)
      [] v.tag = "bool" -> IF v.b THEN <<"T", "r", "u", "e">>
                                  ELSE <<"F", "a", "l", "s", "e">>
      [] OTHER -> <<"N", "o", "n", "e">>

(* the digits of an integer literal: digits, single underscores between them *)
RECURSIVE IsDigitBody(_)
IsDigitBody(t) ==
    /\ Len(t) > 0
    /\ t[1] \in DigitSet
    /\ \/ Len(t) = 1
       \/ IsDigitBody(Tail(t))
       \/ Len(t) > 2 /\ t[2] = "_" /\ IsDigitBody(SubSeq(t, 3, Len(t)))

RECURSIVE DigitBodyVal(_, _)
DigitBodyVal(t, acc) ==
    IF Len(t) = 0 THEN acc
    ELSE IF t[1] = "_" THEN DigitBodyVal(Tail(t), acc)
    ELSE DigitBodyVal(Tail(t), 10 * acc + DigitVal(t[1]))

(* int(text): surrounding whitespace dropped, optional sign, base 10 *)
IntBody(t) ==
    IF Len(t) > 0 /\ t[1] \in {"+", "-"} THEN Tail(t) ELSE t

IntTextOk(t) == IsDigitBody(IntBody(Strip(t)))

IntTextVal(t) ==
    LET u == Strip(t)
        m == DigitBodyVal(IntBody(u), 0)
    IN  IF u[1] = "-" THEN 0 - m ELSE m

(* int(value) raises nothing *)
IntOk(v) ==
    CASE v.tag = "str" -> IntTextOk(v.s)
      [] v.tag = "int" -> TRUE
      [] v.tag = "bool" -> TRUE
      [] OTHER -> FALSE

(* int(value) *)
IntOf(v) ==
    CASE v.tag = "str" -> IntTextVal(v.s)
      [] v.tag = "int" -> v.n
      [] v.tag = "bool" -> IF v.b THEN 1 ELSE 0
      [] OTHER -> 0

-----------------------------------------------------------------------------
(* datetime.strptime for formats made of %Y, %m, %d and literal characters *)

NoDate == [y |-> 0, m |-> 0, d |-> 0]

TwoDigits(t) == 10 * DigitVal(t[1]) + DigitVal(t[2])

(* the alternatives of a directive's pattern, in the order the pattern  *)
(* tries them, each as <<characters consumed, value>>                   *)
DirectiveAlts(dir, t) ==
    LET two == Len(t) >= 2 /\ t[1] \in DigitSet /\ t[2] \in DigitSet
        one == Len(t) >= 1 /\ t[1] \in DigitSet /\ t[1] # "0"
    IN  CASE dir = "%Y" ->
              IF Len(t) >= 4 /\ \A j \in 1..4 : t[j] \in DigitSet
              THEN <<<<4, DigitBodyVal(SubSeq(t, 1, 4), 0)>>>> ELSE <<>>
          [] dir = "%m" ->
              (IF two /\ TwoDigits(t) >= 1 /\ TwoDigits(t) <= 12
               THEN <<<<2, TwoDigits(t)>>>> ELSE <<>>)
              \o (IF one THEN <<<<1, DigitVal(t[1])>>>> ELSE <<>>)
          [] dir = "%d" ->
              (IF two /\ TwoDigits(t) >= 1 /\ TwoDigits(t) <= 31
               THEN <<<<2, TwoDigits(t)>>>> ELSE <<>>)
              \o (IF one THEN <<<<1, DigitVal(t[1])>>>> ELSE <<>>)
              \o (IF Len(t) >= 2 /\ t[1] = " " /\ t[2] \in DigitSet /\ t[2] # "0"
                  THEN <<<<2, DigitVal(t[2])>>>> ELSE <<>>)
          [] OTHER -> <<>>

SetPart(acc, dir, x) ==
    CASE dir = "%Y" -> [acc EXCEPT !.y = x]
      [] dir = "%m" -> [acc EXCEPT !.m = x]
      [] OTHER -> [acc EXCEPT !.d = x]

RECURSIVE StrpMatch(_, _, _)
RECURSIVE StrpAlts(_, _, _, _)
(* first alternative whose continuation matches the whole text *)
StrpAlts(alts, fmt, t, acc) ==
    IF Len(alts) = 0 THEN NoDate
    ELSE LET a == alts[1]
             r == StrpMatch(Tail(fmt), SubSeq(t, a[1] + 1, Len(t)),
                            SetPart(acc, fmt[1], a[2]))
         IN  IF r # NoDate THEN r ELSE StrpAlts(Tail(alts), fmt, t, acc)

StrpMatch(fmt, t, acc) ==
    IF Len(fmt) = 0 THEN (IF Len(t) = 0 THEN acc ELSE NoDate)
    ELSE IF fmt[1] \in {"%Y", "%m", "%d"}
         THEN StrpAlts(DirectiveAlts(fmt[1], t), fmt, t, acc)
    ELSE IF Len(t) > 0 /\ LowerChar(t[1]) = LowerChar(fmt[1])
         THEN StrpMatch(Tail(fmt), Tail(t), acc)
    ELSE NoDate

IsLeap(y) == (y % 4 = 0) /\ ((y % 100 # 0) \/ (y % 400 = 0))

DaysInMonth(y, m) ==
    IF m = 2 THEN (IF IsLeap(y) THEN 29 ELSE 28)
    ELSE IF m \in {4, 6, 9, 11} THEN 30 ELSE 31

(* the parsed fields start at 1900-01-01 *)
StrpDefault == [y |-> 1900, m |-> 1, d |-> 1]

(* datetime.strptime(s, fmt) raises nothing *)
StrptimeOk(t, fmt) ==
    LET r == StrpMatch(fmt, t, StrpDefault)
    IN  r # NoDate /\ r.y >= 1 /\ r.d <= DaysInMonth(r.y, r.m)

Pad(x, w) ==
    LET t == NatToText(x)
    IN  [j \in 1..(w - Len(t)) |-> "0"] \o t

(* dt.date().isoformat() *)
IsoFormat(r) == Pad(r.y, 4) \o <<"-">> \o Pad(r.m, 2) \o <<"-">> \o Pad(r.d, 2)

-----------------------------------------------------------------------------
(* re.match for patterns made of character classes: an atom is            *)
(* [cls, q] with q = "1" (one character of cls), "*" (any number) or      *)
(* "$" (end of text).  A pattern matches a PREFIX of the text.            *)

RECURSIVE ReMatch(_, _)
ReMatch(re, t) ==
    IF Len(re) = 0 THEN TRUE
    ELSE CASE re[1].q = "1" ->
                Len(t) > 0 /\ t[1] \in re[1].cls /\ ReMatch(Tail(re), Tail(t))
           [] re[1].q = "*" ->
                \/ Len(t) > 0 /\ t[1] \in re[1].cls /\ ReMatch(re, Tail(t))
                \/ ReMatch(Tail(re), t)
           [] OTHER -> Len(t) = 0 /\ ReMatch(Tail(re), t)

-----------------------------------------------------------------------------
(* Rules: an entry of a rule is <<>> when the key is absent, <<x>> when set *)

IsSet(opt) == Len(opt) > 0

(* rule.get(key, default) *)
Get(opt, default) == IF IsSet(opt) THEN opt[1] ELSE default

DefaultFormats == <<<<"%Y", "-", "%m", "-", "%d">>>>

(* Python truth of a pattern or a list: None and the empty one are false *)
Truthy(opt) == IsSet(opt) /\ Len(opt[1]) > 0

-----------------------------------------------------------------------------
(* Type coercers: each returns the pair (ok, parsed) *)

Pair(ok, parsed) == [ok |-> ok, parsed |-> parsed]

TrueTexts == {<<"t", "r", "u", "e">>, <<"1">>, <<"y", "e", "s">>, <<"y">>, <<"t">>}

FalseTexts == {<<"f", "a", "l", "s", "e">>, <<"0">>, <<"n", "o">>, <<"n">>, <<"f">>}

parse_boolean(value) ==
    IF IsNa(value) THEN Pair(TRUE, Null)
    ELSE IF value.tag = "bool" THEN Pair(TRUE, value)
    ELSE LET s == LowerText(Strip(Str(value)))
         IN  IF s \in TrueTexts THEN Pair(TRUE, BoolV(TRUE))
             ELSE IF s \in FalseTexts THEN Pair(TRUE, BoolV(FALSE))
             ELSE Pair(FALSE, Null)

parse_integer(value) ==
    IF IsNa(value) \/ IsEmptyStr(value) THEN Pair(TRUE, Null)
    ELSE IF IntOk(value) THEN Pair(TRUE, IntV(IntOf(value)))
    ELSE Pair(FALSE, Null)

parse_string(value) ==
    IF IsNa(value) THEN Pair(TRUE, Null)
    ELSE Pair(TRUE, StrV(Str(value)))

RECURSIVE TryFormats(_, _)
TryFormats(s, formats) ==
    IF Len(formats) = 0 THEN Pair(FALSE, Null)
    ELSE IF StrptimeOk(s, formats[1])
         THEN Pair(TRUE, StrV(IsoFormat(StrpMatch(formats[1], s, StrpDefault))))
         ELSE TryFormats(s, Tail(formats))

parse_date(value, formats) ==
    IF IsNa(value) \/ IsEmptyStr(value) THEN Pair(TRUE, Null)
    ELSE TryFormats(Strip(Str(value)), formats)

(* validate_row, "Type parsing": the coercer the rule's type selects *)
Coerce(rule, val) ==
    LET ftype == Get(rule.type, "string")
        formats == Get(rule.formats, DefaultFormats)
    IN  CASE ftype = "string" -> parse_string(val)
          [] ftype = "integer" -> parse_integer(val)
          [] ftype = "boolean" -> parse_boolean(val)
          [] ftype = "date" -> parse_date(val, formats)
          [] OTHER -> parse_string(val)

-----------------------------------------------------------------------------
(* The constraint checks of validate_row on a coerced value *)

(* variant: the limit itself is already too long *)
LengthFailsAtLimit(rule, parsed) ==
    /\ IsSet(rule.max_length)
    /\ ~IsNa(parsed)
    /\ Len(Str(parsed)) >= rule.max_length[1]

(* variant: the length of a null value is checked too *)
LengthFailsOnNone(rule, parsed) ==
    /\ IsSet(rule.max_length)
    /\ Len(Str(parsed)) > rule.max_length[1]

LengthFails(rule, parsed) ==
    /\ IsSet(rule.max_length)
    /\ ~IsNa(parsed)
    /\ Len(Str(parsed)) > rule.max_length[1]

RegexFails(rule, parsed) ==
    /\ Truthy(rule.regex)
    /\ ~IsNa(parsed)
    /\ ~ReMatch(rule.regex[1], Str(parsed))

AllowedTexts(allowed_values) == {Str(allowed_values[j]) : j \in 1..Len(allowed_values)}

(* variant: the typed value is looked up in the list, not its text *)
AllowedFailsTyped(rule, parsed) ==
    /\ Truthy(rule.allowed_values)
    /\ ~IsNa(parsed)
    /\ \A j \in 1..Len(rule.allowed_values[1]) : rule.allowed_values[1][j] # parsed

AllowedFails(rule, parsed) ==
    /\ Truthy(rule.allowed_values)
    /\ ~IsNa(parsed)
    /\ Str(parsed) \notin AllowedTexts(rule.allowed_values[1])

(* the discard reasons *)
TypeInvalidReason(field) ==
    <<field>> \o <<"_", "t", "y", "p", "e", "_", "i", "n", "v", "a", "l", "i", "d">>

TooLongReason(field, actual, max_length) ==
    <<field>> \o <<"_", "t", "o", "o", "_", "l", "o", "n", "g", " ", "(">>
              \o IntToText(actual) \o <<">">> \o IntToText(max_length) \o <<")">>

RegexMismatchReason(field) ==
    <<field>> \o <<"_", "r", "e", "g", "e", "x", "_", "m", "i", "s", "m", "a", "t", "c", "h">>

NotAllowedReason(field) ==
    <<field>> \o <<"_", "n", "o", "t", "_", "a", "l", "l", "o", "w", "e", "d">>

(* variant: a failed check rejects whether or not the field is required *)
FailedAlwaysRejects(rule, reason) ==
    [kind |-> "reject", reason |-> reason, value |-> Null]

(* what a failed check does: a required field returns, an optional one is *)
(* set to None and the loop continues                                     *)
Failed(rule, reason) ==
    IF Get(rule.required, FALSE)
    THEN [kind |-> "reject", reason |-> reason, value |-> Null]
    ELSE [kind |-> "null", reason |-> <<>>, value |-> Null]

Resolved(parsed) == [kind |-> "value", reason |-> <<>>, value |-> parsed]

(* variant: the pattern is checked before the length *)
FieldCheckRegexFirst(field, rule, val) ==
    LET c == Coerce(rule, val)
        parsed == c.parsed
    IN  IF ~c.ok THEN Failed(rule, TypeInvalidReason(field))
        ELSE IF RegexFails(rule, parsed)
             THEN Failed(rule, RegexMismatchReason(field))
        ELSE IF LengthFails(rule, parsed)
             THEN Failed(rule, TooLongReason(field, Len(Str(parsed)), rule.max_length[1]))
        ELSE IF AllowedFails(rule, parsed)
             THEN Failed(rule, NotAllowedReason(field))
        ELSE Resolved(parsed)

(* one iteration of the loop of validate_row over (field, rule) *)
FieldCheck(field, rule, val) ==
    LET c == Coerce(rule, val)
        parsed == c.parsed
    IN  IF ~c.ok THEN Failed(rule, TypeInvalidReason(field))
        ELSE IF LengthFails(rule, parsed)
             THEN Failed(rule, TooLongReason(field, Len(Str(parsed)), rule.max_length[1]))
        ELSE IF RegexFails(rule, parsed)
             THEN Failed(rule, RegexMismatchReason(field))
        ELSE IF AllowedFails(rule, parsed)
             THEN Failed(rule, NotAllowedReason(field))
        ELSE Resolved(parsed)

-----------------------------------------------------------------------------
(* Rows: functions from field names to values *)

(* row.get(field, None) *)
RowGet(r, field) == IF field \in DOMAIN r THEN r[field] ELSE Null

(* d[key] = value *)
Put(d, key, value) ==
    [x \in (DOMAIN d) \cup {key} |-> IF x = key THEN value ELSE d[x]]

EmptyRow == [x \in {} |-> Null]

-----------------------------------------------------------------------------
(* Inputs: the rule sets and rows the runs are drawn from *)

MaxRows == 2

MaxLength == 3

Rule(type, required, max_length, regex, allowed_values, formats) ==
    [type |-> type, required |-> required, max_length |-> max_length,
     regex |-> regex, allowed_values |-> allowed_values, formats |-> formats]

(* the pattern \d+$ *)
ReDigits == <<[cls |-> DigitSet, q |-> "1"], [cls |-> DigitSet, q |-> "*"],
              [cls |-> {}, q |-> "$"]>>

(* the pattern a *)
RePrefixA == <<[cls |-> {"a"}, q |-> "1"]>>

DayFirstFormats == <<<<"%d", "/", "%m", "/", "%Y">>, <<"%Y", "-", "%m", "-", "%d">>>>

AllowedInts == <<IntV(14), IntV(15)>>

AllowedMixed == <<StrV(<<"a", "b">>), BoolV(TRUE), IntV(1)>>

TypeChoices == {<<>>, <<"string">>, <<"integer">>, <<"boolean">>, <<"date">>, <<"float">>}

RuleSpace ==
    {Rule(t, r, m, x, a, f) :
        t \in TypeChoices,
        r \in {<<>>, <<TRUE>>},
        m \in {<<>>} \cup {<<j>> : j \in 0..MaxLength},
        x \in {<<>>, <<<<>>>>, <<ReDigits>>},
        a \in {<<>>, <<<<>>>>, <<AllowedInts>>, <<AllowedMixed>>},
        f \in {<<>>, <<DayFirstFormats>>}}

Optional(rule) == [rule EXCEPT !.required = <<FALSE>>]

RequiredRules ==
    { Rule(<<"string">>, <<TRUE>>, <<2>>, <<>>, <<>>, <<>>),
      Rule(<<"integer">>, <<TRUE>>, <<>>, <<>>, <<AllowedInts>>, <<>>),
      Rule(<<"boolean">>, <<TRUE>>, <<>>, <<>>, <<>>, <<>>),
      Rule(<<>>, <<TRUE>>, <<>>, <<RePrefixA>>, <<>>, <<>>) }

CuratedRules == RequiredRules \cup {Optional(r) : r \in RequiredRules}

CoreRules ==
    { Rule(<<"string">>, <<TRUE>>, <<2>>, <<>>, <<>>, <<>>),
      Rule(<<"integer">>, <<TRUE>>, <<>>, <<>>, <<AllowedInts>>, <<>>),
      Rule(<<"integer">>, <<>>, <<1>>, <<>>, <<>>, <<>>) }

(* rules.items(): the (field, rule) pairs in the order of the mapping *)
RuleSetsOver(fields, ruleChoices) ==
    {[j \in 1..Len(fields) |-> [field |-> fields[j], rule |-> f[j]]] :
        f \in [1..Len(fields) -> ruleChoices]}

SingleRuleSets == RuleSetsOver(<<"a">>, RuleSpace)

MultiRuleSets ==
    RuleSetsOver(<<"a", "b">>, CuratedRules)
    \cup RuleSetsOver(<<"b", "a">>, CuratedRules)
    \cup RuleSetsOver(<<"c", "a", "b">>, CoreRules)

BatchRuleSets ==
    RuleSetsOver(<<>>, CoreRules)
    \cup RuleSetsOver(<<"a", "b">>, CoreRules)
    \cup RuleSetsOver(<<"b">>, {Optional(r) : r \in CoreRules})

T15 == <<"1", "5">>

Tab == <<"a", "b">>

Tabc == <<"a", "b", "c">>

RawValues ==
    { Null, BoolV(TRUE), IntV(15),
      StrV(<<>>), StrV(T15), StrV(<<"1", "3">>), StrV(<<" ", "1", "5">>),
      StrV(<<"-", "7">>), StrV(Tab), StrV(Tabc), StrV(<<"Y">>), StrV(<<"1">>),
      StrV(<<"2", "0", "2", "4", "-", "0", "1", "-", "0", "5">>),
      StrV(<<"0", "5", "/", "0", "1", "/", "2", "0", "2", "4">>),
      StrV(<<"2", "0", "2", "3", "-", "0", "2", "-", "2", "9">>) }

SmallValues == {Null, StrV(<<>>), StrV(T15), StrV(Tab), StrV(Tabc), StrV(<<"1">>)}

(* the rows over the given keys, each key absent or bound to one of the values *)
RowsOver(keys, values) ==
    UNION {[ks -> values] : ks \in SUBSET keys}

RowsFor(rs) ==
    IF Len(rs) = 1
    THEN {Put(r, "x", StrV(Tab)) : r \in RowsOver({"a"}, RawValues)}
         \cup RowsOver({"a"}, RawValues)
    ELSE IF Len(rs) = 2
    THEN {Put(r, "x", StrV(T15)) : r \in RowsOver({"a", "b"}, SmallValues)}
    ELSE RowsOver({"a", "b", "c"}, {StrV(T15), StrV(Tabc)})

(* the cells of the input file, as text *)
CsvCells == {T15, Tabc, <<"N", "A">>}

CsvColumns == {{"a", "b"}, {"a", "x"}, {"b", "discard_reason"}}

CsvTables ==
    UNION {[1..n -> [cols -> CsvCells]] : n \in 0..MaxRows, cols \in CsvColumns}

(* the texts read_csv reads as a missing value *)
NaTexts == {<<>>, <<"N", "A">>, <<"N", "a", "N">>, <<"n", "u", "l", "l">>,
            <<"N", "/", "A">>, <<"n", "a", "n">>, <<"N", "U", "L", "L">>}

(* pd.read_csv(dtype=str).fillna(""): a missing cell becomes the empty text *)
ReadCell(t) == IF t \in NaTexts THEN StrV(<<>>) ELSE StrV(t)

ReadCsv(table) ==
    [n \in DOMAIN table |-> [c \in DOMAIN table[n] |-> ReadCell(table[n][c])]]

-----------------------------------------------------------------------------
(* State *)

NoRet == [ok |-> FALSE, new_row |-> EmptyRow, reason |-> <<>>]

NoSummary == [total |-> 0, valid_n |-> 0, disc_n |-> 0]

(* main: the run starts with the rules and the input file chosen *)
Init ==
    /\ rules \in BatchRuleSets
    /\ csv \in CsvTables
    /\ df = <<>>
    /\ i = 0
    /\ row = EmptyRow
    /\ new_row = EmptyRow
    /\ k = 0
    /\ ret = NoRet
    /\ valid_rows = <<>>
    /\ discarded = <<>>
    /\ summary = NoSummary
    /\ pc = "load"

(* validate_row called on one row: new_row = dict(row) *)
InitRow ==
    /\ rules \in SingleRuleSets \cup MultiRuleSets
    /\ row \in RowsFor(rules)
    /\ new_row = row
    /\ k = 1
    /\ csv = <<>>
    /\ df = <<>>
    /\ i = 0
    /\ ret = NoRet
    /\ valid_rows = <<>>
    /\ discarded = <<>>
    /\ summary = NoSummary
    /\ pc = "scan"

-----------------------------------------------------------------------------
(* validate_row *)

CurField == rules[k].field

CurCheck == FieldCheck(CurField, rules[k].rule, RowGet(row, CurField))

(* variant: the reason is recorded and the scan goes on to the last field *)
FieldRejectKeepsScanning ==
    /\ pc = "scan"
    /\ k <= Len(rules)
    /\ CurCheck.kind = "reject"
    /\ ret' = [ok |-> FALSE, new_row |-> new_row, reason |-> CurCheck.reason]
    /\ k' = k + 1
    /\ pc' = IF k = Len(rules) THEN "returned" ELSE "scan"
    /\ UNCHANGED <<csv, df, rules, i, row, new_row, valid_rows, discarded, summary>>

(* a required field fails: return False, new_row, reason *)
FieldReject ==
    /\ pc = "scan"
    /\ k <= Len(rules)
    /\ CurCheck.kind = "reject"
    /\ ret' = [ok |-> FALSE, new_row |-> new_row, reason |-> CurCheck.reason]
    /\ pc' = "returned"
    /\ UNCHANGED <<csv, df, rules, i, row, new_row, k, valid_rows, discarded, summary>>

(* an optional field fails: new_row[field] = None; continue *)
FieldNull ==
    /\ pc = "scan"
    /\ k <= Len(rules)
    /\ CurCheck.kind = "null"
    /\ new_row' = Put(new_row, CurField, Null)
    /\ k' = k + 1
    /\ UNCHANGED <<csv, df, rules, i, row, ret, valid_rows, discarded, summary, pc>>

(* variant: a null result is not written to the working copy *)
FieldResolveSkipsNull ==
    /\ pc = "scan"
    /\ k <= Len(rules)
    /\ CurCheck.kind = "value"
    /\ new_row' = IF IsNa(CurCheck.value) THEN new_row
                  ELSE Put(new_row, CurField, CurCheck.value)
    /\ k' = k + 1
    /\ UNCHANGED <<csv, df, rules, i, row, ret, valid_rows, discarded, summary, pc>>

(* every check passes: new_row[field] = parsed *)
FieldResolve ==
    /\ pc = "scan"
    /\ k <= Len(rules)
    /\ CurCheck.kind = "value"
    /\ new_row' = Put(new_row, CurField, CurCheck.value)
    /\ k' = k + 1
    /\ UNCHANGED <<csv, df, rules, i, row, ret, valid_rows, discarded, summary, pc>>

(* the loop is over: return True, new_row, "" *)
ReturnAccepted ==
    /\ pc = "scan"
    /\ k > Len(rules)
    /\ ret' = [ok |-> TRUE, new_row |-> new_row, reason |-> <<>>]
    /\ pc' = "returned"
    /\ UNCHANGED <<csv, df, rules, i, row, new_row, k, valid_rows, discarded, summary>>

NextRow == FieldReject \/ FieldNull \/ FieldResolve \/ ReturnAccepted

-----------------------------------------------------------------------------
(* main *)

(* df = pd.read_csv(args.input, dtype=str).fillna("") *)
Load ==
    /\ pc = "load"
    /\ df' = ReadCsv(csv)
    /\ pc' = "loop"
    /\ UNCHANGED <<csv, rules, i, row, new_row, k, ret, valid_rows, discarded, summary>>

(* the next iteration: row = r.to_dict(); validate_row(row, rules) is entered *)
CallValidate ==
    /\ pc = "loop"
    /\ i < Len(df)
    /\ i' = i + 1
    /\ row' = df[i + 1]
    /\ new_row' = df[i + 1]
    /\ k' = 1
    /\ ret' = NoRet
    /\ pc' = "scan"
    /\ UNCHANGED <<csv, df, rules, valid_rows, discarded, summary>>

(* variant: the accepted row is put in front of the collection *)
AppendValidAtFront ==
    /\ pc = "returned"
    /\ ret.ok
    /\ valid_rows' = <<ret.new_row>> \o valid_rows
    /\ pc' = "loop"
    /\ UNCHANGED <<csv, df, rules, i, row, new_row, k, ret, discarded, summary>>

(* valid_rows.append(new_row) *)
AppendValid ==
    /\ pc = "returned"
    /\ ret.ok
    /\ valid_rows' = Append(valid_rows, ret.new_row)
    /\ pc' = "loop"
    /\ UNCHANGED <<csv, df, rules, i, row, new_row, k, ret, discarded, summary>>

(* x = dict(row); x["discard_reason"] = reason; discarded.append(x) *)
AppendDiscarded ==
    /\ pc = "returned"
    /\ ~ret.ok
    /\ discarded' = Append(discarded, Put(row, "discard_reason", StrV(ret.reason)))
    /\ pc' = "loop"
    /\ UNCHANGED <<csv, df, rules, i, row, new_row, k, ret, valid_rows, summary>>

(* pd.DataFrame(rows).empty: no row or no column *)
FrameEmpty(rows) ==
    Len(rows) = 0 \/ UNION {DOMAIN rows[j] : j \in 1..Len(rows)} = {}

(* the summary line: TOTAL, VALID, DISCARDED *)
Summarise ==
    /\ pc = "loop"
    /\ i >= Len(df)
    /\ summary' = [total |-> Len(df),
                   valid_n |-> IF FrameEmpty(valid_rows) THEN 0 ELSE Len(valid_rows),
                   disc_n |-> IF FrameEmpty(discarded) THEN 0 ELSE Len(discarded)]
    /\ pc' = "done"
    /\ UNCHANGED <<csv, df, rules, i, row, new_row, k, ret, valid_rows, discarded>>

Next ==
    \/ Load
    \/ CallValidate
    \/ FieldReject
    \/ FieldNull
    \/ FieldResolve
    \/ ReturnAccepted
    \/ AppendValid
    \/ AppendDiscarded
    \/ Summarise

Spec == Init /\ [][Next]_vars

SpecRow == InitRow /\ [][NextRow]_vars

-----------------------------------------------------------------------------
(* Vocabulary of the properties *)

RuleAt(j) == rules[j].rule

FieldAt(j) == rules[j].field

RawAt(j) == RowGet(row, FieldAt(j))

RequiredAt(j) == Get(RuleAt(j).required, FALSE)

CoercedAt(j) == Coerce(RuleAt(j), RawAt(j))

ParsedAt(j) == CoercedAt(j).parsed

OutcomeAt(j) == FieldCheck(FieldAt(j), RuleAt(j), RawAt(j))

RuleFields == {FieldAt(j) : j \in 1..Len(rules)}

Scanning == pc = "scan" /\ k <= Len(rules)

Accepted == pc = "returned" /\ ret.ok

Rejected == pc = "returned" /\ ~ret.ok

(* the step taken from a Scanning state wrote v to the current field and went on *)
WroteAndContinued(v) ==
    /\ pc' = "scan"
    /\ k' = k + 1
    /\ ret' = ret
    /\ new_row' = Put(new_row, CurField, v)

(* the step taken from a Scanning state returned Rejected with this reason *)
RejectedWith(reason) ==
    /\ pc' = "returned"
    /\ ~ret'.ok
    /\ ret'.reason = reason
    /\ k' = k
    /\ new_row' = new_row

(* validate_row as a function of the row: the result of the whole scan *)
RECURSIVE ScanFrom(_, _, _)
ScanFrom(r, w, j) ==
    IF j > Len(rules) THEN [ok |-> TRUE, new_row |-> w, reason |-> <<>>]
    ELSE LET o == FieldCheck(FieldAt(j), RuleAt(j), RowGet(r, FieldAt(j)))
         IN  IF o.kind = "reject"
             THEN [ok |-> FALSE, new_row |-> w, reason |-> o.reason]
             ELSE ScanFrom(r, Put(w, FieldAt(j), o.value), j + 1)

ValidateRow(r) == ScanFrom(r, r, 1)

-----------------------------------------------------------------------------
(* C1: when one or more required fields of the row fail, the scan stops at *)
(* the first of them in rule-set order: no later field is evaluated, the   *)
(* working copy holds only the fields before it, and the reason returned   *)
(* is that field's reason.                                                 *)

FailingRequired == {j \in 1..Len(rules) : OutcomeAt(j).kind = "reject"}

FirstFailing == CHOOSE j \in FailingRequired : \A h \in FailingRequired : j <= h

RECURSIVE Written(_)
Written(n) ==
    IF n = 0 THEN row ELSE Put(Written(n - 1), FieldAt(n), OutcomeAt(n).value)

C1_FirstFailingRequired ==
    (pc \in {"scan", "returned"} /\ FailingRequired # {}) =>
        /\ k <= FirstFailing
        /\ new_row = Written(k - 1)
        /\ pc = "returned" =>
              /\ ~ret.ok
              /\ k = FirstFailing
              /\ ret.reason = OutcomeAt(FirstFailing).reason
              /\ ret.new_row = new_row

C1_Witness ==
    /\ Rejected
    /\ k > 1
    /\ Cardinality(FailingRequired) >= 2
    /\ ret.reason = OutcomeAt(k).reason

-----------------------------------------------------------------------------
(* C2: an optional field never rejects the row: whatever fails on it, the  *)
(* field is set to null and the scan goes on; a row is Rejected only at a  *)
(* required field on which a check failed.                                 *)

AnyCheckFails(j) ==
    \/ ~CoercedAt(j).ok
    \/ LengthFails(RuleAt(j), ParsedAt(j))
    \/ RegexFails(RuleAt(j), ParsedAt(j))
    \/ AllowedFails(RuleAt(j), ParsedAt(j))

C2_OptionalStep ==
    (Scanning /\ ~RequiredAt(k)) =>
        WroteAndContinued(IF AnyCheckFails(k) THEN Null ELSE ParsedAt(k))

C2_OptionalNeverRejects ==
    /\ [][C2_OptionalStep]_vars
    /\ [](Rejected => (RequiredAt(k) /\ AnyCheckFails(k)))

C2_Witness ==
    /\ Accepted
    /\ \E j \in 1..Len(rules) :
          /\ ~RequiredAt(j)
          /\ AnyCheckFails(j)
          /\ ret.new_row[FieldAt(j)] = Null
          /\ FieldAt(j) \in DOMAIN row
          /\ row[FieldAt(j)] # Null

-----------------------------------------------------------------------------
(* C3: the batch loop is a stable partition: the accepted and the rejected *)
(* collections hold, in input order, the rows validate_row accepts and     *)
(* rejects, each row decided from that row and the rules alone, and the    *)
(* counts reported add up to the number of input rows.                     *)

Handled == IF pc \in {"scan", "returned"} THEN i - 1 ELSE i

RECURSIVE Indices(_, _)
Indices(n, ok) ==
    IF n = 0 THEN <<>>
    ELSE IF ValidateRow(df[n]).ok = ok THEN Append(Indices(n - 1, ok), n)
    ELSE Indices(n - 1, ok)

C3_StablePartition ==
    LET acc == Indices(Handled, TRUE)
        rej == Indices(Handled, FALSE)
    IN  /\ Len(valid_rows) = Len(acc)
        /\ \A m \in 1..Len(acc) : valid_rows[m] = ValidateRow(df[acc[m]]).new_row
        /\ Len(discarded) = Len(rej)
        /\ \A m \in 1..Len(rej) :
              /\ \A key \in (DOMAIN df[rej[m]]) \ {"discard_reason"} :
                    discarded[m][key] = df[rej[m]][key]
              /\ discarded[m]["discard_reason"] = StrV(ValidateRow(df[rej[m]]).reason)
        /\ Len(valid_rows) + Len(discarded) = Handled
        /\ pc = "done" =>
              /\ Handled = Len(df)
              /\ summary.total = Len(df)
              /\ summary.valid_n = Len(valid_rows)
              /\ summary.disc_n = Len(discarded)
              /\ summary.total = summary.valid_n + summary.disc_n

C3_Witness ==
    /\ pc = "done"
    /\ Len(valid_rows) >= 1
    /\ Len(discarded) >= 1
    /\ Len(df) >= 2
    /\ df[1] # df[2]

-----------------------------------------------------------------------------
(* C4: an accepted row is the input row with exactly the rule-set fields   *)
(* written: its keys are the input keys and the rule-set fields, and every *)
(* key outside the rule set keeps its raw value.                           *)

C4_AcceptedFrame ==
    Accepted =>
        /\ DOMAIN ret.new_row = (DOMAIN row) \cup RuleFields
        /\ \A key \in (DOMAIN row) \ RuleFields : ret.new_row[key] = row[key]
        /\ \A j \in 1..Len(rules) : ret.new_row[FieldAt(j)] = OutcomeAt(j).value

C4_Witness ==
    /\ Accepted
    /\ \E f \in RuleFields : f \notin DOMAIN row /\ ret.new_row[f] = Null
    /\ \E key \in DOMAIN row : key \notin RuleFields
    /\ \E f \in RuleFields : ret.new_row[f] # Null

-----------------------------------------------------------------------------
(* C5: a rejected row is left unmodified by validate_row, and its entry in *)
(* the rejected collection holds the original raw value of every original  *)
(* key plus one non-empty discard_reason.                                  *)

JustDiscarded == pc = "loop" /\ i > 0 /\ ~ret.ok

C5_RejectedEntry ==
    /\ Rejected /\ i > 0 => row = df[i]
    /\ JustDiscarded =>
          LET x == discarded[Len(discarded)]
          IN  /\ row = df[i]
              /\ DOMAIN x = (DOMAIN df[i]) \cup {"discard_reason"}
              /\ \A key \in DOMAIN df[i] : x[key] = df[i][key]
              /\ x["discard_reason"].tag = "str"
              /\ Len(x["discard_reason"].s) > 0

-----------------------------------------------------------------------------
(* C6: a raw value that is absent, null or the empty text coerces to       *)
(* (true, null) under a rule of every type, so the field is null in the    *)
(* working copy and never fails with _type_invalid.                        *)

EmptyRaw(j) == RawAt(j) = Null \/ RawAt(j) = StrV(<<>>)

C6_EmptyIsNull ==
    \A j \in 1..Len(rules) :
        (pc \in {"scan", "returned"} /\ EmptyRaw(j)) =>
            /\ j < k => (CoercedAt(j) = Pair(TRUE, Null) /\ new_row[FieldAt(j)] = Null)
            /\ (j = k /\ Rejected) => ret.reason # TypeInvalidReason(FieldAt(j))

-----------------------------------------------------------------------------
(* C7: the allow-list check compares text forms.  As claimed: whenever     *)
(* allowed_values is set, a coerced non-null value passes iff its text     *)
(* equals the text of some element.  As amended: whenever allowed_values   *)
(* is a non-empty list; an empty list is not checked at all.               *)

ReachesAllowed(j) ==
    /\ CoercedAt(j).ok
    /\ ~IsNa(ParsedAt(j))
    /\ ~LengthFails(RuleAt(j), ParsedAt(j))
    /\ ~RegexFails(RuleAt(j), ParsedAt(j))

InAllowList(j) ==
    \E n \in 1..Len(RuleAt(j).allowed_values[1]) :
        Str(ParsedAt(j)) = Str(RuleAt(j).allowed_values[1][n])

AllowListStep ==
    IF InAllowList(k) THEN WroteAndContinued(ParsedAt(k))
    ELSE IF RequiredAt(k) THEN RejectedWith(NotAllowedReason(CurField))
    ELSE WroteAndContinued(Null)

C7_Original_AnyList ==
    [][(Scanning /\ IsSet(RuleAt(k).allowed_values) /\ ReachesAllowed(k))
          => AllowListStep]_vars

C7_AllowListNonEmpty ==
    [][(Scanning /\ IsSet(RuleAt(k).allowed_values) /\ ReachesAllowed(k)) =>
          IF Len(RuleAt(k).allowed_values[1]) > 0 THEN AllowListStep
          ELSE WroteAndContinued(ParsedAt(k))]_vars

C7_Witness ==
    /\ Accepted
    /\ Len(rules) = 1
    /\ Truthy(RuleAt(1).allowed_values)
    /\ RawAt(1) = StrV(<<" ", "1", "5">>)
    /\ ret.new_row[FieldAt(1)] = IntV(15)

-----------------------------------------------------------------------------
(* C8: with max_length = M and a coerced non-null value of text length L,  *)
(* L <= M passes the length check and keeps the value; L > M rejects a     *)
(* required field with "<field>_too_long (<L>><M>)" and nulls an optional  *)
(* one.                                                                    *)

TextLen(j) == Len(Str(ParsedAt(j)))

MaxLen(j) == RuleAt(j).max_length[1]

C8_Step ==
    (/\ Scanning
     /\ IsSet(RuleAt(k).max_length)
     /\ CoercedAt(k).ok
     /\ ~IsNa(ParsedAt(k))) =>
        IF TextLen(k) > MaxLen(k)
        THEN IF RequiredAt(k)
             THEN RejectedWith(<<CurField>>
                        \o <<"_", "t", "o", "o", "_", "l", "o", "n", "g", " ", "(">>
                        \o IntToText(TextLen(k)) \o <<">">>
                        \o IntToText(MaxLen(k)) \o <<")">>)
             ELSE WroteAndContinued(Null)
        ELSE IF RegexFails(RuleAt(k), ParsedAt(k)) \/ AllowedFails(RuleAt(k), ParsedAt(k))
             THEN pc' = "returned" => ret'.reason \in
                      {RegexMismatchReason(CurField), NotAllowedReason(CurField)}
             ELSE WroteAndContinued(ParsedAt(k))

C8_LengthBoundary == [][C8_Step]_vars

C8_Witness ==
    /\ Accepted
    /\ Len(rules) = 1
    /\ RequiredAt(1)
    /\ IsSet(RuleAt(1).max_length)
    /\ ~IsNa(ParsedAt(1))
    /\ TextLen(1) = MaxLen(1)
    /\ MaxLen(1) > 0
    /\ ret.new_row[FieldAt(1)] = ParsedAt(1)

-----------------------------------------------------------------------------
(* C9: within one field the checks run in the order type, max_length,      *)
(* regex, allowed_values, and the first one that fails decides alone: a    *)
(* required field is rejected with that check's reason, an optional field  *)
(* is set to null.                                                         *)

FailedChecks(j) ==
    (IF ~CoercedAt(j).ok THEN <<TypeInvalidReason(FieldAt(j))>> ELSE <<>>)
    \o (IF LengthFails(RuleAt(j), ParsedAt(j))
        THEN <<TooLongReason(FieldAt(j), TextLen(j), MaxLen(j))>> ELSE <<>>)
    \o (IF RegexFails(RuleAt(j), ParsedAt(j))
        THEN <<RegexMismatchReason(FieldAt(j))>> ELSE <<>>)
    \o (IF AllowedFails(RuleAt(j), ParsedAt(j))
        THEN <<NotAllowedReason(FieldAt(j))>> ELSE <<>>)

C9_Step ==
    Scanning =>
        IF Len(FailedChecks(k)) = 0 THEN WroteAndContinued(ParsedAt(k))
        ELSE IF RequiredAt(k) THEN RejectedWith(FailedChecks(k)[1])
        ELSE WroteAndContinued(Null)

C9_FirstFailingCheck == [][C9_Step]_vars

C9_Witness ==
    /\ Rejected
    /\ Len(FailedChecks(k)) = 3
    /\ ret.reason = TooLongReason(FieldAt(k), TextLen(k), MaxLen(k))

-----------------------------------------------------------------------------
(* C10: required does not mean non-null: a required field whose raw value  *)
(* coerces successfully to null skips the three constraint checks and      *)
(* resolves to null; a row is Rejected only by a failed coercion or by a   *)
(* failed constraint on a non-null coerced value.                          *)

C10_Step ==
    (Scanning /\ RequiredAt(k) /\ CoercedAt(k) = Pair(TRUE, Null)) =>
        WroteAndContinued(Null)

C10_RequiredMayBeNull ==
    /\ [][C10_Step]_vars
    /\ [](Rejected => (~CoercedAt(k).ok \/ ~IsNa(ParsedAt(k))))

C10_Witness ==
    /\ Accepted
    /\ Len(rules) = 1
    /\ RequiredAt(1)
    /\ RawAt(1) = StrV(<<>>)
    /\ Get(RuleAt(1).type, "string") = "integer"
    /\ IsSet(RuleAt(1).max_length)
    /\ Truthy(RuleAt(1).regex)
    /\ Truthy(RuleAt(1).allowed_values)
    /\ ret.new_row[FieldAt(1)] = Null

=============================================================================
